---- MODULE Spec2Model ----
(***************************************************************************)
(* Message search and snippet extraction of the session search modal, the  *)
(* hooks of TokenUsageIndicator, the elapsed-time hook of ChatFooter,      *)
(* CollapsibleCodeView, the scroll button of ChatList and                  *)
(* formatCompactNumber.                                                    *)
(*                                                                         *)
(* A string is a sequence of characters; a character is a one-element      *)
(* token ("a", " ", "Idot", ...).  All indices in the operators below are  *)
(* 0-based, as in the source; only SubSeq and s[i] are 1-based.            *)
(*                                                                         *)
(* Characters of the model:                                                *)
(*   "a" "A"   a letter in both cases                                      *)
(*   "b"       another lower-case letter                                   *)
(*   " "       the space the word-boundary step looks for                  *)
(*   "tab"     whitespace that is not a space                              *)
(*   "."       the character the ellipsis is made of                       *)
(*   "Idot"    U+0130, whose lower case is the two code units "i" "dot"    *)
(* Context-sensitive case mappings (final sigma) are not modelled.         *)
(***************************************************************************)
EXTENDS Integers, Sequences, FiniteSets, TLC

VARIABLES messages, query, results, text, maxLength, out,
          message, extracted, indicator, footer,
          codeView, chatList, num, formatted, modal

vars == <<messages, query, results, text, maxLength, out,
          message, extracted, indicator, footer,
          codeView, chatList, num, formatted, modal>>

\* The state of CollapsibleCodeView, ChatList, formatCompactNumber and of
\* the visibility of the search modal.
viewVars == <<codeView, chatList, num, formatted, modal>>

\* The state outside the search of the modal.
componentVars == <<message, extracted, indicator, footer,
                   codeView, chatList, num, formatted, modal>>

(***************************************************************************)
(* Program constants.                                                      *)
(***************************************************************************)
DefaultMaxLength == 100
LookAhead == 10
LookBehind == 10
MsPerSecond == 1000
IntervalMs == 1000
DefaultCollapsedLines == 20
ScrollThreshold == 100
Thousand == 1000
Million == 1000000

(***************************************************************************)
(* Bounds of the model.                                                    *)
(***************************************************************************)
MaxTextLen == 4
MaxQueryLen == 2
MaxMaxLength == 4
PadSpan == 4
MaxMessages == 2
MaxPartLen == 2
MaxTokens == 3
ClockStep == 500
MaxNow == 3000
MaxCodeLen == 4
MaxCollapsedLines == 3
MaxPresses == 3
NumSpan == 60
LongRun == 84
LongPrefix == 8

(***************************************************************************)
(* JavaScript string primitives.                                           *)
(***************************************************************************)
Min(a, b) == IF a <= b THEN a ELSE b
Max(a, b) == IF a >= b THEN a ELSE b

MinOf(S) == CHOOSE x \in S : \A y \in S : x <= y
MaxOf(S) == CHOOSE x \in S : \A y \in S : x >= y

\* A run of n characters c.
Rep(c, n) == [i \in 1..n |-> c]

\* String.prototype.toLowerCase on one character.
LowerChar(c) ==
    CASE c = "A" -> <<"a">>
      [] c = "Idot" -> <<"i", "dot">>
      [] OTHER -> <<c>>

\* String.prototype.toLowerCase: the lower case of each character in turn
\* (computed by halves).
RECURSIVE toLowerCase(_)
toLowerCase(s) ==
    IF s = <<>> THEN <<>>
    ELSE IF Len(s) = 1 THEN LowerChar(s[1])
    ELSE LET h == Len(s) \div 2
         IN  toLowerCase(SubSeq(s, 1, h)) \o toLowerCase(SubSeq(s, h + 1, Len(s)))

\* String.prototype.indexOf(q): first 0-based position of q in s, or -1.
indexOf(s, q) ==
    LET hits == { i \in 0..(Len(s) - Len(q)) : SubSeq(s, i + 1, i + Len(q)) = q }
    IN  IF hits = {} THEN -1 ELSE MinOf(hits)

\* String.prototype.includes(q).
includes(s, q) == indexOf(s, q) # -1

\* String.prototype.lastIndexOf(c, from) for a one-character c: the last
\* 0-based position of c at or before from, or -1.
lastIndexOf(s, c, from) ==
    LET hits == { i \in 0..Min(Max(from, 0), Len(s) - 1) : s[i + 1] = c }
    IN  IF hits = {} THEN -1 ELSE MaxOf(hits)

\* String.prototype.slice(b, e): negative arguments count from the end.
slice(s, b, e) ==
    LET from == IF b < 0 THEN Max(Len(s) + b, 0) ELSE Min(b, Len(s))
        to   == IF e < 0 THEN Max(Len(s) + e, 0) ELSE Min(e, Len(s))
    IN  IF from < to THEN SubSeq(s, from + 1, to) ELSE <<>>

Ellipsis == <<".", ".", ".">>

(***************************************************************************)
(* createSnippet                                                           *)
(***************************************************************************)
\* matchIndex: position of the lowered query in the lowered text.
matchIndex(t, q) == indexOf(toLowerCase(t), toLowerCase(q))

contextSize(q, ml) == (ml - Len(q)) \div 2

\* start and end before the word-boundary adjustment.
initialStart(t, q, ml) == Max(0, matchIndex(t, q) - contextSize(q, ml))

\* Faulty variant: the right edge is moved to the next space as well.
snippetEnd_AtSpace(t, q, ml) ==
    LET end    == Min(Len(t), matchIndex(t, q) + Len(q) + contextSize(q, ml))
        spaces == { i \in 0..(Len(t) - 1) : i >= end /\ t[i + 1] = " " }
    IN  IF spaces # {} THEN MinOf(spaces) ELSE end

snippetEnd(t, q, ml) ==
    Min(Len(t), matchIndex(t, q) + Len(q) + contextSize(q, ml))

\* Faulty variant: the space is taken however far to the left it lies.
adjustStart_NoWindow(t, start) ==
    IF start > 0
    THEN LET spaceIndex == lastIndexOf(t, " ", start + LookAhead)
         IN  IF spaceIndex >= 0 THEN spaceIndex + 1 ELSE start
    ELSE start

\* "Adjust for word boundaries".
adjustStart(t, start) ==
    IF start > 0
    THEN LET spaceIndex == lastIndexOf(t, " ", start + LookAhead)
         IN  IF spaceIndex > start - LookBehind THEN spaceIndex + 1 ELSE start
    ELSE start

snippetStart(t, q, ml) == adjustStart(t, initialStart(t, q, ml))

\* The slice with its ellipses.
snippetText(t, start, end) ==
    LET body == slice(t, start, end)
        pre  == IF start > 0 THEN Ellipsis \o body ELSE body
    IN  IF end < Len(t) THEN pre \o Ellipsis ELSE pre

\* Faulty variant: the text is not cut when the query is not found.
createSnippet_NoTruncate(t, q, ml) ==
    IF matchIndex(t, q) = -1
    THEN [snippet |-> t, matchStart |-> -1, matchEnd |-> -1]
    ELSE LET snippet == snippetText(t, snippetStart(t, q, ml), snippetEnd(t, q, ml))
             snippetMatchIndex == indexOf(toLowerCase(snippet), toLowerCase(q))
         IN  [snippet    |-> snippet,
              matchStart |-> snippetMatchIndex,
              matchEnd   |-> snippetMatchIndex + Len(q)]

createSnippet(t, q, ml) ==
    IF matchIndex(t, q) = -1
    THEN [snippet |-> slice(t, 0, ml), matchStart |-> -1, matchEnd |-> -1]
    ELSE LET snippet == snippetText(t, snippetStart(t, q, ml), snippetEnd(t, q, ml))
             snippetMatchIndex == indexOf(toLowerCase(snippet), toLowerCase(q))
         IN  [snippet    |-> snippet,
              matchStart |-> snippetMatchIndex,
              matchEnd   |-> snippetMatchIndex + Len(q)]

(***************************************************************************)
(* Messages.  A message is a record; a field a kind does not carry holds   *)
(* Absent (null or undefined).  tool.exists is FALSE for a tool-call       *)
(* message whose tool is null.                                             *)
(***************************************************************************)
Absent == <<"absent">>

NoToolCall == [exists |-> FALSE, name |-> Absent, description |-> Absent]
NoEvent == [type |-> "none", message |-> Absent]

Message(id, kind, txt, tool, event) ==
    [id |-> id, kind |-> kind, text |-> txt, tool |-> tool, event |-> event]

(***************************************************************************)
(* Components before they are used.  A specification of one component      *)
(* leaves the others in this state.                                        *)
(***************************************************************************)
NoMessage == Message("none", "none", Absent, NoToolCall, NoEvent)
NotExtracted == <<"not extracted">>

\* usageData is undefined when defined is FALSE.
NoUsageData ==
    [defined |-> FALSE, inputTokens |-> 0, outputTokens |-> 0, cacheRead |-> 0]

\* TokenUsageIndicator before its first render: hooks is the sequence of
\* hooks the latest render called, failed tells that a render has thrown.
UnmountedIndicator ==
    [mounted     |-> FALSE,
     usageData   |-> NoUsageData,
     showDetails |-> FALSE,
     hooks       |-> <<>>,
     failed      |-> FALSE]

\* null, the start timestamp of a footer that is not thinking.
NoTimestamp == -1

\* ChatFooter with useElapsedTime before its first render.
\*   phase            "initial", "mounted" or "unmounted"
\*   startTimestamp   the argument of the hook in the latest render
\*   elapsed          the state of the hook
\*   reported         the value the hook returned in the latest render
\*   timers           the active intervals: id, the start timestamp the
\*                    callback closes over, and the time the next call is due
\*   interval         the id of the interval the latest effect made (0: none)
\*   effectsPending   the effect (or its cleanup) of the latest commit has
\*                    not run yet
\*   renderPending    setElapsed changed the state since the latest render
\*   now              Date.now()
UnmountedFooter ==
    [phase          |-> "initial",
     startTimestamp |-> NoTimestamp,
     elapsed        |-> 0,
     reported       |-> 0,
     timers         |-> {},
     interval       |-> 0,
     effectsPending |-> FALSE,
     renderPending  |-> FALSE,
     now            |-> 0]

\* CollapsibleCodeView before its first render; displayCode, toggleOffered
\* and hiddenLines are what the latest render showed.
UnmountedCodeView ==
    [mounted        |-> FALSE,
     code           |-> <<>>,
     collapsedLines |-> 0,
     isExpanded     |-> FALSE,
     presses        |-> 0,
     displayCode    |-> <<>>,
     toggleOffered  |-> FALSE,
     hiddenLines    |-> 0]

\* No scroll event yet.
NoOffset == -1000

\* ChatListInternal after its first render, with no messages.
\*   showScrollButton  the state passed to the button as visible
\*   offsetY           contentOffset.y of the latest scroll event
\*   messageCount      props.messages.length
\*   presses           presses of the button so far
\*   requests          calls of scrollToIndex({index: 0}) so far
InitialChatList ==
    [showScrollButton |-> FALSE,
     offsetY          |-> NoOffset,
     messageCount     |-> 0,
     presses          |-> 0,
     requests         |-> 0]

\* formatCompactNumber before it is called.
NoNumber == -1
NotFormatted == <<"not formatted">>

\* The search modal hidden, as after its first render with visible false.
\*   visible         the visible prop of the latest render
\*   effectPending   the effect on [visible] of the latest render has not
\*                   run yet
\*   openings        renders in which visible became TRUE
\*   openedQuery     the query and the results of the latest such render
\*   openedResults
\*   pressedId       the message id of the result pressed last
\*   calls           the callbacks of the props called by the latest
\*                   handleMessagePress, in order
HiddenModal ==
    [visible       |-> FALSE,
     effectPending |-> FALSE,
     openings      |-> 0,
     openedQuery   |-> <<>>,
     openedResults |-> <<>>,
     pressedId     |-> "none",
     calls         |-> <<>>]

ViewsIdle ==
    /\ codeView = UnmountedCodeView
    /\ chatList = InitialChatList
    /\ num = NoNumber
    /\ formatted = NotFormatted
    /\ modal = HiddenModal

ComponentsIdle ==
    /\ ViewsIdle
    /\ message = NoMessage
    /\ extracted = NotExtracted
    /\ indicator = UnmountedIndicator
    /\ footer = UnmountedFooter

(***************************************************************************)
(* Inputs of the snippet builder.                                          *)
(***************************************************************************)
Strs(S, lo, hi) == UNION { [1..n -> S] : n \in lo..hi }

TextAlphabet == {"a", "A", " ", "."}

\* Short texts and texts behind a long run (the word-boundary window);
\* UnicodeTexts adds texts with a character whose lower case is longer than
\* the character.
LongTexts ==
    { <<c>> \o Rep(".", n) \o <<d, "a">> :
        c \in {" ", "."}, d \in {" ", "."},
        n \in (LookBehind - 4)..(LookBehind - 4 + PadSpan) }
IdotTexts == { <<"Idot">> \o s : s \in Strs({"a", " "}, 2, MaxTextLen) }
Texts == Strs(TextAlphabet, 0, MaxTextLen) \cup LongTexts
UnicodeTexts == Texts \cup IdotTexts

Queries == Strs({"a", "A", " ", "."}, 0, MaxQueryLen)

MaxLengths == 0..MaxMaxLength \cup {DefaultMaxLength}

NoSnippet == [snippet |-> <<>>, matchStart |-> -2, matchEnd |-> -2]

SnippetInit ==
    /\ text \in Texts
    /\ query \in Queries
    /\ maxLength \in MaxLengths
    /\ out = NoSnippet
    /\ messages = <<>>
    /\ results = <<>>
    /\ ComponentsIdle

CallCreateSnippet ==
    /\ out = NoSnippet
    /\ out' = createSnippet(text, query, maxLength)
    /\ UNCHANGED <<messages, query, results, text, maxLength>>
    /\ UNCHANGED componentVars

SnippetNext == CallCreateSnippet

SnippetSpec == SnippetInit /\ [][SnippetNext]_vars

\* The same call over texts that need not be ASCII.
UnicodeSnippetInit ==
    /\ text \in UnicodeTexts
    /\ query \in Queries
    /\ maxLength \in MaxLengths
    /\ out = NoSnippet
    /\ messages = <<>>
    /\ results = <<>>
    /\ ComponentsIdle

UnicodeSnippetSpec == UnicodeSnippetInit /\ [][SnippetNext]_vars

(***************************************************************************)
(* getMessageText                                                          *)
(***************************************************************************)
\* Faulty variant: only null and undefined are filtered out.
Truthy_NotNullish(s) == s # Absent

\* Boolean(x) of an optional string: null, undefined and '' are falsy.
Truthy(s) == s # Absent /\ s # <<>>

\* Array.prototype.join(' ').
RECURSIVE join(_)
join(parts) ==
    IF parts = <<>> THEN <<>>
    ELSE IF Len(parts) = 1 THEN Head(parts)
    ELSE Head(parts) \o <<" ">> \o join(Tail(parts))

\* message.tool?.name, message.tool?.description
toolName(m) == IF m.tool.exists THEN m.tool.name ELSE Absent
toolDescription(m) == IF m.tool.exists THEN m.tool.description ELSE Absent

\* Faulty variant: a message of an unknown kind gives its text field.
getMessageText_UnknownKindText(m) ==
    CASE m.kind = "user-text" -> m.text
      [] m.kind = "agent-text" -> m.text
      [] m.kind = "tool-call" ->
            join(SelectSeq(<<toolName(m), toolDescription(m)>>, Truthy))
      [] m.kind = "agent-event" ->
            IF m.event.type = "message" THEN m.event.message ELSE <<>>
      [] OTHER -> m.text

\* Faulty variant: the message of an event of any type is returned.
getMessageText_AnyEvent(m) ==
    CASE m.kind = "user-text" -> m.text
      [] m.kind = "agent-text" -> m.text
      [] m.kind = "tool-call" ->
            join(SelectSeq(<<toolName(m), toolDescription(m)>>, Truthy))
      [] m.kind = "agent-event" ->
            IF m.event.message # Absent THEN m.event.message ELSE <<>>
      [] OTHER -> <<>>

getMessageText(m) ==
    CASE m.kind = "user-text" -> m.text
      [] m.kind = "agent-text" -> m.text
      [] m.kind = "tool-call" ->
            join(SelectSeq(<<toolName(m), toolDescription(m)>>, Truthy))
      [] m.kind = "agent-event" ->
            IF m.event.type = "message" THEN m.event.message ELSE <<>>
      [] OTHER -> <<>>

(***************************************************************************)
(* searchMessages                                                          *)
(***************************************************************************)
IsWhitespace(c) == c \in {" ", "tab"}

\* String.prototype.trim().
RECURSIVE trimStart(_)
trimStart(s) ==
    IF s # <<>> /\ IsWhitespace(Head(s)) THEN trimStart(Tail(s)) ELSE s

RECURSIVE trimEnd(_)
trimEnd(s) ==
    IF s # <<>> /\ IsWhitespace(s[Len(s)])
    THEN trimEnd(SubSeq(s, 1, Len(s) - 1))
    ELSE s

trim(s) == trimEnd(trimStart(s))

SearchResult(m, s) ==
    [message    |-> m,
     snippet    |-> s.snippet,
     matchStart |-> s.matchStart,
     matchEnd   |-> s.matchEnd]

\* Faulty variant: every message with text is reported.
searchStep_NoFilter(acc, m, q) ==
    LET txt == getMessageText(m)
    IN  IF txt = <<>> THEN acc
        ELSE Append(acc, SearchResult(m, createSnippet(txt, q, DefaultMaxLength)))

\* Faulty variant: the text is compared as written.
searchStep_CaseSensitive(acc, m, q) ==
    LET txt == getMessageText(m)
    IN  IF txt = <<>> THEN acc
        ELSE IF includes(txt, q)
        THEN Append(acc, SearchResult(m, createSnippet(txt, q, DefaultMaxLength)))
        ELSE acc

\* Faulty variant: a result is put in front of the earlier ones.
searchStep_Unshift(acc, m, q) ==
    LET txt == getMessageText(m)
    IN  IF txt = <<>> THEN acc
        ELSE IF includes(toLowerCase(txt), toLowerCase(q))
        THEN <<SearchResult(m, createSnippet(txt, q, DefaultMaxLength))>> \o acc
        ELSE acc

\* One pass of the loop body: the results after looking at message m.
searchStep(acc, m, q) ==
    LET txt == getMessageText(m)
    IN  IF txt = <<>> THEN acc
        ELSE IF includes(toLowerCase(txt), toLowerCase(q))
        THEN Append(acc, SearchResult(m, createSnippet(txt, q, DefaultMaxLength)))
        ELSE acc

RECURSIVE searchLoop(_, _, _)
searchLoop(acc, msgs, q) ==
    IF msgs = <<>> THEN acc
    ELSE searchLoop(searchStep(acc, Head(msgs), q), Tail(msgs), q)

\* Faulty variant: only the empty query is turned away.
searchMessages_NoTrim(msgs, q) ==
    IF q = <<>> THEN <<>> ELSE searchLoop(<<>>, msgs, q)

searchMessages(msgs, q) ==
    IF trim(q) = <<>> THEN <<>> ELSE searchLoop(<<>>, msgs, q)

(***************************************************************************)
(* Inputs of the search: the messages of a session and the queries typed.  *)
(***************************************************************************)
Tool(name, description) ==
    [exists |-> TRUE, name |-> name, description |-> description]
Event(type, msg) == [type |-> type, message |-> msg]

\* A query of more than DefaultMaxLength - 2 * LookAhead characters that
\* begins with a space, and a text that holds it behind a short prefix.
LongQuery == <<" ">> \o Rep("a", LongRun)
LongText == Rep(".", LongPrefix) \o LongQuery \o <<".", ".">>

MessagePool ==
    { Message("u1", "user-text", <<"a", "b">>, NoToolCall, NoEvent),
      Message("u2", "user-text", <<"Idot", " ", "a">>, NoToolCall, NoEvent),
      Message("u3", "user-text", LongText, NoToolCall, NoEvent),
      Message("a1", "agent-text", <<"A", " ", "a">>, NoToolCall, NoEvent),
      Message("a2", "agent-text", <<>>, NoToolCall, NoEvent),
      Message("t1", "tool-call", Absent, Tool(<<"a">>, <<"b">>), NoEvent),
      Message("t2", "tool-call", Absent, Tool(<<"A">>, <<>>), NoEvent),
      Message("t3", "tool-call", Absent, NoToolCall, NoEvent),
      Message("e1", "agent-event", Absent, NoToolCall, Event("message", <<"b", "a">>)),
      Message("e2", "agent-event", Absent, NoToolCall, Event("switch", Absent)),
      Message("e3", "agent-event", Absent, NoToolCall, Event("limit-reached", Absent)),
      Message("e4", "agent-event", Absent, NoToolCall, Event("future-event", <<"a">>)),
      Message("x1", "future-kind", <<"a">>, NoToolCall, NoEvent) }

MessageLists == UNION { [1..n -> MessagePool] : n \in 0..MaxMessages }

\* Blank queries, queries in either case, a query with a space inside, a
\* query no text contains, and the long query.
SearchQueries ==
    { <<>>, <<" ">>, <<"tab">>, <<" ", "tab">>,
      <<"a">>, <<"A">>, <<"b">>, <<" ", "a">>, <<"a", " ", "b">>,
      <<"A", " ", "A">>, <<"b", "b">>, LongQuery }

(***************************************************************************)
(* The search modal: the query typed so far and the memoised results.      *)
(***************************************************************************)
Init ==
    /\ messages \in MessageLists
    /\ query = <<>>
    /\ results = searchMessages(messages, <<>>)
    /\ text = <<>>
    /\ maxLength = DefaultMaxLength
    /\ out = NoSnippet
    /\ ComponentsIdle

\* Faulty variant: the search keeps its results between calls and reverses
\* the list it is given.
setQuery_Accumulate(q) ==
    /\ q # query
    /\ query' = q
    /\ results' = results \o searchMessages(messages, q)
    /\ messages' = [i \in 1..Len(messages) |-> messages[Len(messages) + 1 - i]]
    /\ UNCHANGED <<text, maxLength, out>>
    /\ UNCHANGED componentVars

\* onChangeText={setQuery}, then the results memo on [messages, query].
setQuery(q) ==
    /\ q # query
    /\ query' = q
    /\ results' = searchMessages(messages, q)
    /\ UNCHANGED <<messages, text, maxLength, out>>
    /\ UNCHANGED componentVars

\* The clear button, shown while query.length > 0.
clearQuery ==
    /\ Len(query) > 0
    /\ query' = <<>>
    /\ results' = searchMessages(messages, <<>>)
    /\ UNCHANGED <<messages, text, maxLength, out>>
    /\ UNCHANGED componentVars

Next ==
    \/ \E q \in SearchQueries : setQuery(q)
    \/ clearQuery

Spec == Init /\ [][Next]_vars

(***************************************************************************)
(* Properties of the search (checked under Spec).                          *)
(***************************************************************************)
\* t contains q when both are compared in lower case.
ContainsCI(t, q) ==
    LET lt == toLowerCase(t)
        lq == toLowerCase(q)
    IN  \E i \in 0..(Len(lt) - Len(lq)) : SubSeq(lt, i + 1, i + Len(lq)) = lq

IsBlank(q) == \A i \in 1..Len(q) : IsWhitespace(q[i])

Range(f) == { f[i] : i \in DOMAIN f }

Ids(seq) == [i \in 1..Len(seq) |-> seq[i].id]
ResultIds == [i \in 1..Len(results) |-> results[i].message.id]

Occurrences(m) == Cardinality({ i \in 1..Len(messages) : messages[i] = m })
Reports(m) == Cardinality({ i \in 1..Len(results) : results[i].message = m })

RECURSIVE IsSubsequence(_, _)
IsSubsequence(a, b) ==
    IF a = <<>> THEN TRUE
    ELSE IF b = <<>> THEN FALSE
    ELSE IF Head(a) = Head(b) THEN IsSubsequence(Tail(a), Tail(b))
    ELSE IsSubsequence(a, Tail(b))

\* C1: a query that is empty or all whitespace gives no results, whatever
\* the messages are.
C1_BlankQueryNoResults == IsBlank(query) => results = <<>>

\* A query of whitespace was typed over messages whose text contains it.
W1_BlankQueryOverMatchingText ==
    /\ query # <<>>
    /\ IsBlank(query)
    /\ \E m \in Range(messages) : ContainsCI(getMessageText(m), query)
    /\ results = <<>>

\* C2: for a query that is not blank, every result refers to a message
\* whose extracted text contains the query, compared without case.
C2_ResultsContainQuery ==
    ~IsBlank(query) =>
        \A i \in 1..Len(results) :
            ContainsCI(getMessageText(results[i].message), query)

\* Some message with text was left out while another was reported.
W2_SomeReportedSomeNot ==
    /\ ~IsBlank(query)
    /\ results # <<>>
    /\ \E m \in Range(messages) :
          /\ getMessageText(m) # <<>>
          /\ ~ContainsCI(getMessageText(m), query)

\* C3: for a query that is not blank, a message whose extracted text is not
\* empty and contains the query is reported once for each of its
\* occurrences in the list.
C3_EveryMatchReportedOnce ==
    ~IsBlank(query) =>
        \A m \in Range(messages) :
            (getMessageText(m) # <<>> /\ ContainsCI(getMessageText(m), query))
                => Reports(m) = Occurrences(m)

\* A message that matches only when case is ignored occurs twice and is
\* reported twice.
W3_MatchInOtherCaseTwice ==
    /\ ~IsBlank(query)
    /\ \E m \in Range(messages) :
          /\ ContainsCI(getMessageText(m), query)
          /\ ~includes(getMessageText(m), query)
          /\ Occurrences(m) = 2
          /\ Reports(m) = 2

\* C4: the message identifiers of the results are a subsequence of the
\* identifiers of the messages, in the same order.
C4_ResultsInInputOrder == IsSubsequence(ResultIds, Ids(messages))

\* Two different messages were reported.
W4_TwoDifferentResults ==
    /\ Len(results) = 2
    /\ results[1].message.id # results[2].message.id

(***************************************************************************)
(* Properties of the snippet builder (checked under SnippetSpec; C5 and C9 *)
(* under UnicodeSnippetSpec; C7 on the results of the search, under Spec). *)
(***************************************************************************)
Called == out # NoSnippet

\* snippet[matchStart:matchEnd]
Marked(r) == slice(r.snippet, r.matchStart, r.matchEnd)

OffsetsConsistent(r) ==
    \/ r.matchStart = -1 /\ r.matchEnd = -1
    \/ 0 <= r.matchStart /\ r.matchStart <= r.matchEnd /\ r.matchEnd <= Len(r.snippet)

\* The number of characters the ellipses add to the slice.
EllipsisLength(t, q, ml) ==
    IF matchIndex(t, q) = -1 THEN 0
    ELSE (IF snippetStart(t, q, ml) > 0 THEN Len(Ellipsis) ELSE 0)
         + (IF snippetEnd(t, q, ml) < Len(t) THEN Len(Ellipsis) ELSE 0)

\* C5: whenever matchStart is not -1, snippet[matchStart:matchEnd] equals
\* the query, compared without case.
C5_MarkedRangeIsQuery ==
    (Called /\ out.matchStart # -1) =>
        toLowerCase(Marked(out)) = toLowerCase(query)

\* C6: in every result of the snippet builder either both offsets are -1,
\* or 0 <= matchStart <= matchEnd <= length of the snippet.
C6_OffsetsConsistent == Called => OffsetsConsistent(out)

\* C7: for a non-empty query no longer than maxLength that occurs in the
\* text, the match is marked (matchStart >= 0) and the adjusted left edge
\* is not to the right of the start of the match; stated of every result
\* of the search, whose maxLength is the default.
C7_MatchKeptAndMarked ==
    (query # <<>> /\ Len(query) <= DefaultMaxLength) =>
        \A i \in 1..Len(results) :
            LET t == getMessageText(results[i].message)
            IN  /\ results[i].matchStart >= 0
                /\ snippetStart(t, query, DefaultMaxLength) <= matchIndex(t, query)

\* C8: for a query longer than maxLength that occurs in the text, the left
\* edge is not beyond the right edge and the match is marked with
\* matchStart >= 0 and snippet[matchStart:matchEnd] equal to the query,
\* compared without case.
C8_LongQueryValidSnippet ==
    (Called /\ Len(query) > maxLength /\ ContainsCI(text, query)) =>
        /\ snippetStart(text, query, maxLength) <= snippetEnd(text, query, maxLength)
        /\ out.matchStart >= 0
        /\ toLowerCase(Marked(out)) = toLowerCase(query)

\* C9: when the query does not occur in the text (maxLength >= 0), the
\* snippet is the first maxLength characters of the text, both offsets are
\* -1 and no ellipsis is added.
C9_NoMatchPrefix ==
    (Called /\ maxLength >= 0 /\ ~ContainsCI(text, query)) =>
        /\ out.snippet = SubSeq(text, 1, Min(maxLength, Len(text)))
        /\ out.matchStart = -1
        /\ out.matchEnd = -1

\* A text longer than maxLength, which the query does not occur in, was cut
\* to maxLength characters.
W9_NoMatchTruncated ==
    /\ Called
    /\ ~ContainsCI(text, query)
    /\ maxLength > 0
    /\ Len(text) > maxLength
    /\ Len(out.snippet) = maxLength

\* C10 as stated: for a query no longer than maxLength, the snippet without
\* its ellipses has at most maxLength characters.
C10_BodyWithinMaxLength ==
    (Called /\ Len(query) <= maxLength) =>
        Len(out.snippet) - EllipsisLength(text, query, maxLength) <= maxLength

\* C10 as amended: for a query no longer than maxLength, the snippet
\* without its ellipses has at most maxLength + 8 characters; the
\* word-boundary step may move the left edge up to 8 characters to the left.
C10_BodyWithinMaxLengthPlusWindow ==
    (Called /\ Len(query) <= maxLength) =>
        Len(out.snippet) - EllipsisLength(text, query, maxLength)
            <= maxLength + LookBehind - 2

\* The left edge was moved 8 characters to the left and the bound is met.
W10_BodyAtTheBound ==
    /\ Called
    /\ Len(query) <= maxLength
    /\ snippetStart(text, query, maxLength)
          = initialStart(text, query, maxLength) - (LookBehind - 2)
    /\ Len(out.snippet) - EllipsisLength(text, query, maxLength)
          = maxLength + LookBehind - 2

\* The first position in t (not in its lower-cased copy) at which q stands,
\* compared without case; -1 if there is none.
FirstOccurrence(t, q) ==
    LET hits == { i \in 0..(Len(t) - Len(q)) :
                    toLowerCase(SubSeq(t, i + 1, i + Len(q))) = toLowerCase(q) }
    IN  IF hits = {} THEN -1 ELSE MinOf(hits)

\* The whole text lies inside the window around the first occurrence.
TextFitsWindow(t, q, ml) ==
    /\ FirstOccurrence(t, q) # -1
    /\ FirstOccurrence(t, q) <= contextSize(q, ml)
    /\ Len(t) <= FirstOccurrence(t, q) + Len(q) + contextSize(q, ml)

\* C11: when the whole text fits in the window, the snippet is the text
\* itself, matchStart is the first occurrence index of the query in the text
\* and matchEnd = matchStart + len(query).
C11_FittingTextUnchanged ==
    (Called /\ TextFitsWindow(text, query, maxLength)) =>
        /\ out.snippet = text
        /\ out.matchStart = FirstOccurrence(text, query)
        /\ out.matchEnd = out.matchStart + Len(query)

\* The snippet is the slice text[start:end] between its ellipses.
ExpectedSnippet(t, start, end) ==
    (IF start > 0 THEN Ellipsis ELSE <<>>)
        \o (IF start < end THEN SubSeq(t, start + 1, end) ELSE <<>>)
        \o (IF end < Len(t) THEN Ellipsis ELSE <<>>)

\* C16: when the query occurs in the text, matchStart is the first
\* occurrence index less the final left edge, plus 3 if "..." was prepended,
\* and matchEnd = matchStart + len(query); so the marked range does not
\* overlap the prepended "...".
C16_OffsetsAreTheTranslatedMatch ==
    (Called /\ ContainsCI(text, query)) =>
        LET start == snippetStart(text, query, maxLength)
            shift == IF start > 0 THEN Len(Ellipsis) ELSE 0
        IN  /\ out.matchStart = FirstOccurrence(text, query) - start + shift
            /\ out.matchEnd = out.matchStart + Len(query)
            /\ (start > 0 /\ query # <<>>) => out.matchStart >= Len(Ellipsis)

\* C17: when the query occurs in the text, the right edge is
\* min(len(text), matchIndex + len(query) + contextSize) without any
\* adjustment, "..." is appended exactly when that edge is smaller than
\* len(text), and "..." is prepended exactly when the adjusted left edge is
\* greater than 0.
C17_EdgesAndEllipses ==
    (Called /\ ContainsCI(text, query)) =>
        LET mi    == indexOf(toLowerCase(text), toLowerCase(query))
            right == Min(Len(text), mi + Len(query) + ((maxLength - Len(query)) \div 2))
        IN  out.snippet = ExpectedSnippet(text, snippetStart(text, query, maxLength), right)

\* The text was cut on the right only.
W17_CutOnTheRight ==
    /\ Called
    /\ query # <<>>
    /\ maxLength > Len(query)
    /\ ContainsCI(text, query)
    /\ snippetStart(text, query, maxLength) = 0
    /\ snippetEnd(text, query, maxLength) < Len(text)
    /\ out.snippet = SubSeq(text, 1, snippetEnd(text, query, maxLength)) \o Ellipsis

\* The spaces of t at the positions lo+1 .. hi.
SpacesIn(t, lo, hi) == { i \in 0..(Len(t) - 1) : i > lo /\ i <= hi /\ t[i + 1] = " " }

\* C18: with start = max(0, matchIndex - contextSize) > 0, the left edge
\* becomes the position after the last space in (start - 10, start + 10] if
\* there is one, and stays start if there is none.
C18_LeftEdgeMovesOnlyToASpace ==
    (Called /\ ContainsCI(text, query) /\ initialStart(text, query, maxLength) > 0) =>
        LET start  == initialStart(text, query, maxLength)
            spaces == SpacesIn(text, start - LookBehind, start + LookAhead)
        IN  snippetStart(text, query, maxLength)
                = IF spaces # {} THEN MaxOf(spaces) + 1 ELSE start

(***************************************************************************)
(* The text extractor on its own: getMessageText applied to one message.   *)
(***************************************************************************)
SearchIdle ==
    /\ messages = <<>>
    /\ query = <<>>
    /\ results = <<>>
    /\ text = <<>>
    /\ maxLength = DefaultMaxLength
    /\ out = NoSnippet

\* An optional string of a tool call: undefined, '' or a short string.
ToolParts == {Absent} \cup Strs({"a", " "}, 0, MaxPartLen)

EventTypes == {"message", "switch", "limit-reached", "future-event"}

ExtractMessages ==
    { Message("t", "tool-call", Absent, Tool(n, d), NoEvent) :
        n \in ToolParts, d \in ToolParts }
    \cup { Message("t", "tool-call", Absent, NoToolCall, NoEvent) }
    \cup { Message("e", "agent-event", Absent, NoToolCall, Event(ty, msg)) :
             ty \in EventTypes, msg \in {Absent, <<>>, <<"a">>} }
    \cup { Message("m", kind, txt, NoToolCall, NoEvent) :
             kind \in {"user-text", "agent-text", "future-kind"},
             txt \in {<<>>, <<"a">>} }

ExtractInit ==
    /\ message \in ExtractMessages
    /\ extracted = NotExtracted
    /\ indicator = UnmountedIndicator
    /\ footer = UnmountedFooter
    /\ SearchIdle
    /\ ViewsIdle

CallGetMessageText ==
    /\ extracted = NotExtracted
    /\ extracted' = getMessageText(message)
    /\ UNCHANGED <<message, indicator, footer>>
    /\ UNCHANGED viewVars
    /\ UNCHANGED <<messages, query, results, text, maxLength, out>>

ExtractNext == CallGetMessageText

ExtractSpec == ExtractInit /\ [][ExtractNext]_vars

Extracted == extracted # NotExtracted

NonEmpty(part) == part # Absent /\ Len(part) > 0

\* C12: for a tool-call message the extracted text is the tool name, one
\* space and the tool description when both are non-empty, the non-empty one
\* when the other is absent or empty, and the empty string when both are
\* absent or empty or the tool is absent; the extractor adds no separator in
\* front or at the end.
C12_ToolTextJoined ==
    (Extracted /\ message.kind = "tool-call") =>
        LET n == message.tool.name
            d == message.tool.description
        IN  extracted =
                IF ~message.tool.exists THEN <<>>
                ELSE IF NonEmpty(n) /\ NonEmpty(d) THEN n \o <<" ">> \o d
                ELSE IF NonEmpty(n) THEN n
                ELSE IF NonEmpty(d) THEN d
                ELSE <<>>

\* A tool with a name and an empty description gave the name alone.
W12_NameAlone ==
    /\ Extracted
    /\ message.kind = "tool-call"
    /\ message.tool.exists
    /\ message.tool.name = <<"a">>
    /\ message.tool.description = <<>>
    /\ extracted = <<"a">>

(***************************************************************************)
(* Properties of extraction within the search (checked under Spec).        *)
(***************************************************************************)
Reported(m) == \E j \in 1..Len(results) : results[j].message = m

\* C13: for an agent-event message the extracted text is the event's message
\* exactly when the event type is "message" and the empty string for every
\* other event type, so an event of another type is in no search result.
C13_OnlyMessageEventsHaveText ==
    \A i \in 1..Len(messages) :
        LET m == messages[i]
        IN  m.kind = "agent-event" =>
                /\ getMessageText(m) =
                       IF m.event.type = "message" THEN m.event.message ELSE <<>>
                /\ m.event.type # "message" => ~Reported(m)

\* The list holds an event of another type that carries a message with the
\* query in it, and a "message" event that is reported.
W13_MessageEventReportedOtherNot ==
    /\ ~IsBlank(query)
    /\ \E i \in 1..Len(messages) :
          /\ messages[i].kind = "agent-event"
          /\ messages[i].event.type = "future-event"
          /\ ContainsCI(messages[i].event.message, query)
    /\ \E j \in 1..Len(results) :
          /\ results[j].message.kind = "agent-event"
          /\ results[j].message.event.type = "message"

KnownKinds == {"user-text", "agent-text", "tool-call", "agent-event"}
KnownKind(m) == m.kind \in KnownKinds

\* C14: a message of a kind the extractor does not know gives the empty
\* string, and the search over a list that holds such messages returns what
\* it returns for the list without them: the pass goes on over the messages
\* that remain.
C14_UnknownKindSkipped ==
    /\ \A i \in 1..Len(messages) :
          ~KnownKind(messages[i]) =>
              /\ getMessageText(messages[i]) = <<>>
              /\ ~Reported(messages[i])
    /\ results = searchMessages(SelectSeq(messages, KnownKind), query)

\* A message of an unknown kind stands before a message that is reported.
W14_ReportedAfterUnknownKind ==
    /\ Len(messages) = 2
    /\ ~KnownKind(messages[1])
    /\ KnownKind(messages[2])
    /\ Len(results) = 1
    /\ results[1].message = messages[2]

UsageData(i, o, c) ==
    [defined |-> TRUE, inputTokens |-> i, outputTokens |-> o, cacheRead |-> c]

UsageDatas ==
    {NoUsageData}
        \cup { UsageData(i, o, c) :
                 i \in 0..MaxTokens, o \in 0..MaxTokens, c \in 0..MaxTokens }

\* The hooks a render calls: two before the early return, two after it.
hooksCalled(u) ==
    IF ~u.defined
    THEN <<"useUnistyles", "useState">>
    ELSE <<"useUnistyles", "useState", "useCallback", "useCallback">>

\* A render with usageData u.  showDetails is lost with the instance when
\* the render throws.
renderIndicator(ind, u) ==
    IF ind.hooks # <<>> /\ hooksCalled(u) # ind.hooks
    THEN [mounted     |-> FALSE,
          usageData   |-> u,
          showDetails |-> FALSE,
          hooks       |-> hooksCalled(u),
          failed      |-> TRUE]
    ELSE [ind EXCEPT !.mounted = TRUE, !.usageData = u, !.hooks = hooksCalled(u)]

IndicatorInit ==
    /\ indicator = UnmountedIndicator
    /\ message = NoMessage
    /\ extracted = NotExtracted
    /\ footer = UnmountedFooter
    /\ SearchIdle
    /\ ViewsIdle

IndicatorUnchanged ==
    /\ UNCHANGED <<message, extracted, footer>>
    /\ UNCHANGED viewVars
    /\ UNCHANGED <<messages, query, results, text, maxLength, out>>

\* The first render.
mountIndicator(u) ==
    /\ ~indicator.mounted
    /\ ~indicator.failed
    /\ indicator' = renderIndicator(indicator, u)
    /\ IndicatorUnchanged

\* The parent passes another usageData.
setUsageData(u) ==
    /\ indicator.mounted
    /\ u # indicator.usageData
    /\ indicator' = renderIndicator(indicator, u)
    /\ IndicatorUnchanged

\* The compact indicator is pressed; it is shown only with usageData.
handlePress ==
    /\ indicator.mounted
    /\ indicator.usageData.defined
    /\ ~indicator.showDetails
    /\ indicator' = renderIndicator([indicator EXCEPT !.showDetails = TRUE],
                                    indicator.usageData)
    /\ IndicatorUnchanged

\* The details modal is closed.
handleClose ==
    /\ indicator.mounted
    /\ indicator.usageData.defined
    /\ indicator.showDetails
    /\ indicator' = renderIndicator([indicator EXCEPT !.showDetails = FALSE],
                                    indicator.usageData)
    /\ IndicatorUnchanged

IndicatorNext ==
    \/ \E u \in UsageDatas : mountIndicator(u)
    \/ \E u \in UsageDatas : setUsageData(u)
    \/ handlePress
    \/ handleClose

IndicatorSpec == IndicatorInit /\ [][IndicatorNext]_vars

\* C19: every render of a mounted instance calls the hooks the render
\* before it called, also when usageData changes between undefined and a
\* defined value; no render fails, and a change of usageData keeps
\* showDetails.
C19_SameHooksEveryRender ==
    [][ indicator.mounted =>
            /\ indicator'.hooks = indicator.hooks
            /\ ~indicator'.failed
            /\ indicator'.usageData # indicator.usageData =>
                   indicator'.showDetails = indicator.showDetails ]_vars

(***************************************************************************)
(* ChatFooter with useElapsedTime: one instance.  A render returns the     *)
(* elapsed state as it is; the effect of a render whose startTimestamp     *)
(* differs from the one before runs after the render is committed, the     *)
(* cleanup of the effect before it first, and again before the next        *)
(* render.  Times are in milliseconds.                                     *)
(***************************************************************************)
\* !startTimestamp
Falsy(ts) == ts = NoTimestamp \/ ts = 0

\* props.thinking ? props.thinkingAt : null, with timestamps in the past
\* and one ahead of the clock.
Timestamps ==
    {NoTimestamp, 0, MsPerSecond, 2 * MsPerSecond, MaxNow + MsPerSecond}

\* Faulty variant: the interval is left running.
clearInterval_Leak(timers, id) == timers

clearInterval(timers, id) == { t \in timers : t.id # id }

\* The value updateElapsed passes to setElapsed.
updateElapsed(now, startTimestamp) ==
    Max(0, (now - startTimestamp) \div MsPerSecond)

\* The id setInterval returns: one no active interval has.
newInterval(timers) ==
    MinOf({ i \in 1..(Cardinality(timers) + 1) : \A t \in timers : t.id # i })

FooterInit ==
    /\ footer = UnmountedFooter
    /\ message = NoMessage
    /\ extracted = NotExtracted
    /\ indicator = UnmountedIndicator
    /\ SearchIdle
    /\ ViewsIdle

FooterUnchanged ==
    /\ UNCHANGED <<message, extracted, indicator>>
    /\ UNCHANGED viewVars
    /\ UNCHANGED <<messages, query, results, text, maxLength, out>>

\* The first render.
mountFooter(ts) ==
    /\ footer.phase = "initial"
    /\ footer' = [footer EXCEPT !.phase = "mounted",
                                !.startTimestamp = ts,
                                !.reported = footer.elapsed,
                                !.effectsPending = TRUE]
    /\ FooterUnchanged

\* A render with another start timestamp: thinking starts, stops or starts
\* again.
setStartTimestamp(ts) ==
    /\ footer.phase = "mounted"
    /\ ~footer.effectsPending
    /\ ts # footer.startTimestamp
    /\ footer' = [footer EXCEPT !.startTimestamp = ts,
                                !.reported = footer.elapsed,
                                !.renderPending = FALSE,
                                !.effectsPending = TRUE]
    /\ FooterUnchanged

\* The render that follows a change of the elapsed state.
rerenderFooter ==
    /\ footer.phase = "mounted"
    /\ ~footer.effectsPending
    /\ footer.renderPending
    /\ footer' = [footer EXCEPT !.reported = footer.elapsed,
                                !.renderPending = FALSE]
    /\ FooterUnchanged

\* The cleanup of the effect before, then the effect of the latest render;
\* after unmount the cleanup alone.
runEffects ==
    /\ footer.effectsPending
    /\ LET cleaned == clearInterval(footer.timers, footer.interval)
           ts      == footer.startTimestamp
           id      == newInterval(cleaned)
           value   == updateElapsed(footer.now, ts)
       IN  footer' =
               IF footer.phase = "unmounted"
               THEN [footer EXCEPT !.timers = cleaned,
                                   !.interval = 0,
                                   !.effectsPending = FALSE]
               ELSE IF Falsy(ts)
               THEN [footer EXCEPT !.elapsed = 0,
                                   !.renderPending = @ \/ footer.elapsed # 0,
                                   !.timers = cleaned,
                                   !.interval = 0,
                                   !.effectsPending = FALSE]
               ELSE [footer EXCEPT !.elapsed = value,
                                   !.renderPending = @ \/ footer.elapsed # value,
                                   !.timers = cleaned \cup
                                       {[id             |-> id,
                                         startTimestamp |-> ts,
                                         due            |-> footer.now + IntervalMs]},
                                   !.interval = id,
                                   !.effectsPending = FALSE]
    /\ FooterUnchanged

\* An interval calls updateElapsed; the state of an unmounted instance is
\* not updated.
timerFires(t) ==
    /\ t \in footer.timers
    /\ footer.now >= t.due
    /\ LET value == updateElapsed(footer.now, t.startTimestamp)
           later == (footer.timers \ {t}) \cup {[t EXCEPT !.due = @ + IntervalMs]}
       IN  footer' =
               IF footer.phase = "mounted"
               THEN [footer EXCEPT !.elapsed = value,
                                   !.renderPending = @ \/ footer.elapsed # value,
                                   !.timers = later]
               ELSE [footer EXCEPT !.timers = later]
    /\ FooterUnchanged

\* Date.now() advances.
tick ==
    /\ footer.now + ClockStep <= MaxNow
    /\ footer' = [footer EXCEPT !.now = @ + ClockStep]
    /\ FooterUnchanged

unmountFooter ==
    /\ footer.phase = "mounted"
    /\ ~footer.effectsPending
    /\ footer' = [footer EXCEPT !.phase = "unmounted",
                                !.renderPending = FALSE,
                                !.effectsPending = TRUE]
    /\ FooterUnchanged

FooterNext ==
    \/ \E ts \in Timestamps : mountFooter(ts)
    \/ \E ts \in Timestamps : setStartTimestamp(ts)
    \/ rerenderFooter
    \/ runEffects
    \/ \E t \in footer.timers : timerFires(t)
    \/ tick
    \/ unmountFooter

FooterSpec == FooterInit /\ [][FooterNext]_vars

\* C20 as stated: at most one interval is active, none while the start
\* timestamp is absent or the component is unmounted, the elapsed value is
\* never negative and the value the hook returned is 0 while the start
\* timestamp is absent.
C20_NoTimerAndZeroWhenAbsent ==
    /\ Cardinality(footer.timers) <= 1
    /\ (footer.startTimestamp = NoTimestamp \/ footer.phase = "unmounted") =>
           footer.timers = {}
    /\ footer.elapsed >= 0
    /\ footer.reported >= 0
    /\ footer.startTimestamp = NoTimestamp => footer.reported = 0

\* C20, amended: at most one interval is active and the elapsed value is
\* never negative at any time; once the effect of the latest render, or the
\* cleanup after unmount, has run, no interval is active if the start
\* timestamp is absent or the component is unmounted and the elapsed state
\* is 0 if the start timestamp is absent; the hook returns 0 from the render
\* that follows, if the component is still mounted then.
C20_NoTimerAndZeroOnceEffectsHaveRun ==
    /\ Cardinality(footer.timers) <= 1
    /\ footer.elapsed >= 0
    /\ footer.reported >= 0
    /\ ~footer.effectsPending =>
          /\ (footer.startTimestamp = NoTimestamp \/ footer.phase = "unmounted") =>
                 footer.timers = {}
          /\ footer.startTimestamp = NoTimestamp => footer.elapsed = 0
          /\ ( /\ footer.startTimestamp = NoTimestamp
                /\ footer.phase = "mounted"
                /\ ~footer.renderPending ) =>
                 footer.reported = 0

\* Thinking had lasted a second or more and stopped; the effect has run, the
\* component has rendered again and shows 0 with no interval left.
W20_StoppedAfterASecond ==
    /\ footer.phase = "mounted"
    /\ footer.startTimestamp = NoTimestamp
    /\ ~footer.effectsPending
    /\ ~footer.renderPending
    /\ footer.now >= MsPerSecond
    /\ footer.timers = {}
    /\ footer.elapsed = 0
    /\ footer.reported = 0

(***************************************************************************)
(* CollapsibleCodeView: one instance.  The code is a string over "a" and   *)
(* the line feed "nl".                                                     *)
(***************************************************************************)
\* code.split('\n')
RECURSIVE splitLines(_)
splitLines(s) ==
    LET feeds == { i \in 1..Len(s) : s[i] = "nl" }
    IN  IF feeds = {} THEN <<s>>
        ELSE <<SubSeq(s, 1, MinOf(feeds) - 1)>>
                 \o splitLines(SubSeq(s, MinOf(feeds) + 1, Len(s)))

\* lines.join('\n')
RECURSIVE joinLines(_)
joinLines(lines) ==
    IF lines = <<>> THEN <<>>
    ELSE IF Len(lines) = 1 THEN Head(lines)
    ELSE Head(lines) \o <<"nl">> \o joinLines(Tail(lines))

\* Faulty variant: one line more is kept.
firstLines_OneMore(lines, n) == SubSeq(lines, 1, Min(n + 1, Len(lines)))

\* lines.slice(0, n) for n >= 0
firstLines(lines, n) == SubSeq(lines, 1, Min(n, Len(lines)))

\* What a render shows for the props and the state in cv.
renderCodeView(cv) ==
    LET lines          == splitLines(cv.code)
        totalLines     == Len(lines)
        shouldCollapse == totalLines > cv.collapsedLines
    IN  [cv EXCEPT
            !.displayCode =
                IF ~shouldCollapse \/ cv.isExpanded
                THEN cv.code
                ELSE joinLines(firstLines(lines, cv.collapsedLines)),
            !.toggleOffered = shouldCollapse,
            !.hiddenLines =
                IF shouldCollapse /\ ~cv.isExpanded
                THEN totalLines - cv.collapsedLines
                ELSE 0]

\* Short codes and codes of about DefaultCollapsedLines lines.
Codes ==
    Strs({"a", "nl"}, 0, MaxCodeLen)
        \cup { Rep("nl", n) \o <<"a">> :
                 n \in (DefaultCollapsedLines - 1)..(DefaultCollapsedLines + 1) }

\* The collapsedLines prop; DefaultCollapsedLines when it is not given.
CollapsedLines == 0..MaxCollapsedLines \cup {DefaultCollapsedLines}

CodeViewInit ==
    /\ codeView = UnmountedCodeView
    /\ chatList = InitialChatList
    /\ num = NoNumber
    /\ formatted = NotFormatted
    /\ modal = HiddenModal
    /\ message = NoMessage
    /\ extracted = NotExtracted
    /\ indicator = UnmountedIndicator
    /\ footer = UnmountedFooter
    /\ SearchIdle

CodeViewUnchanged ==
    /\ UNCHANGED <<chatList, num, formatted, modal>>
    /\ UNCHANGED <<message, extracted, indicator, footer>>
    /\ UNCHANGED <<messages, query, results, text, maxLength, out>>

\* The first render: useState(false).
mountCodeView(code, n) ==
    /\ ~codeView.mounted
    /\ codeView' = renderCodeView([codeView EXCEPT !.mounted = TRUE,
                                                   !.code = code,
                                                   !.collapsedLines = n,
                                                   !.isExpanded = FALSE])
    /\ CodeViewUnchanged

\* A render with other props; the state is kept.
setCodeProps(code, n) ==
    /\ codeView.mounted
    /\ <<code, n>> # <<codeView.code, codeView.collapsedLines>>
    /\ codeView' = renderCodeView([codeView EXCEPT !.code = code,
                                                   !.collapsedLines = n])
    /\ CodeViewUnchanged

\* A press of the toggle, which is there only when it is offered.
handleToggle ==
    /\ codeView.mounted
    /\ codeView.toggleOffered
    /\ codeView.presses < MaxPresses
    /\ codeView' = renderCodeView([codeView EXCEPT !.isExpanded = ~@,
                                                   !.presses = @ + 1])
    /\ CodeViewUnchanged

CodeViewNext ==
    \/ \E code \in Codes, n \in CollapsedLines : mountCodeView(code, n)
    \/ \E code \in Codes, n \in CollapsedLines : setCodeProps(code, n)
    \/ handleToggle

CodeViewSpec == CodeViewInit /\ [][CodeViewNext]_vars

\* The line feeds of a code and the number of its lines.
LineFeeds(code) == { i \in 1..Len(code) : code[i] = "nl" }
LineCount(code) == Cardinality(LineFeeds(code)) + 1

\* The code before its n-th line feed: its first n lines.
LeadingLines(code, n) ==
    LET nth == CHOOSE i \in LineFeeds(code) :
                   Cardinality({ j \in LineFeeds(code) : j <= i }) = n
    IN  SubSeq(code, 1, nth - 1)

\* C21: the view starts collapsed and each press of the toggle flips the
\* expanded state; for collapsedLines >= 1, the first collapsedLines lines
\* are displayed if the code has more lines than that and the view is not
\* expanded, and the complete code otherwise; the toggle is offered exactly
\* when the code has more than collapsedLines lines, and the count of hidden
\* lines it shows is the number of lines less collapsedLines.
C21_CollapsedShowsLeadingLines ==
    codeView.mounted =>
        LET total == LineCount(codeView.code)
            n     == codeView.collapsedLines
        IN  /\ codeView.isExpanded = (codeView.presses % 2 = 1)
            /\ n >= 1 =>
                  /\ codeView.displayCode =
                         IF total > n /\ ~codeView.isExpanded
                         THEN LeadingLines(codeView.code, n)
                         ELSE codeView.code
                  /\ codeView.toggleOffered = (total > n)
                  /\ (codeView.toggleOffered /\ ~codeView.isExpanded) =>
                         codeView.hiddenLines = total - n

\* A code of more lines than collapsedLines was expanded and collapsed
\* again, and is shown cut.
W21_CollapsedAgain ==
    /\ codeView.mounted
    /\ codeView.collapsedLines >= 1
    /\ LineCount(codeView.code) > codeView.collapsedLines
    /\ codeView.presses = 2
    /\ ~codeView.isExpanded
    /\ codeView.displayCode # codeView.code
    /\ codeView.hiddenLines >= 1

(***************************************************************************)
(* ChatListInternal: the scroll button of the inverted list.               *)
(***************************************************************************)
\* Faulty variant: the button shows at the threshold already.
scrolledUp_AtThreshold(offsetY) == offsetY >= ScrollThreshold

\* offsetY > 100
scrolledUp(offsetY) == offsetY > ScrollThreshold

\* contentOffset.y of a scroll event: around the threshold, at the bottom
\* and beyond it (overscroll).
Offsets ==
    {-1, 0, ScrollThreshold - 1, ScrollThreshold, ScrollThreshold + 1,
     2 * ScrollThreshold}

MessageCounts == 0..MaxMessages

ChatListInit ==
    /\ chatList \in { [InitialChatList EXCEPT !.messageCount = k] :
                        k \in MessageCounts }
    /\ codeView = UnmountedCodeView
    /\ num = NoNumber
    /\ formatted = NotFormatted
    /\ modal = HiddenModal
    /\ message = NoMessage
    /\ extracted = NotExtracted
    /\ indicator = UnmountedIndicator
    /\ footer = UnmountedFooter
    /\ SearchIdle

ChatListUnchanged ==
    /\ UNCHANGED <<codeView, num, formatted, modal>>
    /\ UNCHANGED <<message, extracted, indicator, footer>>
    /\ UNCHANGED <<messages, query, results, text, maxLength, out>>

\* onScroll
handleScroll(offsetY) ==
    /\ chatList' = [chatList EXCEPT !.offsetY = offsetY,
                                    !.showScrollButton = scrolledUp(offsetY)]
    /\ ChatListUnchanged

\* onPress of the button
scrollToLatest ==
    /\ chatList.presses < MaxPresses
    /\ chatList' = [chatList EXCEPT
                       !.presses = @ + 1,
                       !.requests = IF chatList.messageCount > 0 THEN @ + 1 ELSE @]
    /\ ChatListUnchanged

\* The session has another number of messages.
setMessageCount(k) ==
    /\ k # chatList.messageCount
    /\ chatList' = [chatList EXCEPT !.messageCount = k]
    /\ ChatListUnchanged

ChatListNext ==
    \/ \E offsetY \in Offsets : handleScroll(offsetY)
    \/ scrollToLatest
    \/ \E k \in MessageCounts : setMessageCount(k)

ChatListSpec == ChatListInit /\ [][ChatListNext]_vars

\* C22: the scroll button is hidden before the first scroll event and
\* afterwards visible exactly when the offset of the latest scroll event is
\* greater than 100; a press of the button requests a scroll to index 0
\* exactly when there are messages, and leaves the visibility as it is.
C22_ButtonFollowsLatestOffset ==
    /\ [](chatList.showScrollButton =
              (chatList.offsetY # NoOffset /\ chatList.offsetY > ScrollThreshold))
    /\ [][ chatList'.presses # chatList.presses =>
              /\ chatList'.showScrollButton = chatList.showScrollButton
              /\ chatList'.requests =
                     chatList.requests
                         + (IF chatList.messageCount > 0 THEN 1 ELSE 0) ]_vars

\* The list was scrolled to the threshold and not beyond, so the button is
\* hidden; it was pressed once without messages and once with messages.
W22_HiddenAtThreshold ==
    /\ chatList.offsetY = ScrollThreshold
    /\ ~chatList.showScrollButton
    /\ chatList.presses = 2
    /\ chatList.requests = 1

(***************************************************************************)
(* formatCompactNumber.  The result is a string over the digits, "." and   *)
(* the suffixes "K" and "M".                                               *)
(***************************************************************************)
DigitChars == <<"0", "1", "2", "3", "4", "5", "6", "7", "8", "9">>

\* Number.prototype.toString() of a non-negative integer.
RECURSIVE toString(_)
toString(n) ==
    IF n < 10 THEN <<DigitChars[n + 1]>>
    ELSE toString(n \div 10) \o <<DigitChars[(n % 10) + 1]>>

\* (n / d).toFixed(1): the quotient rounded to one decimal.  The quotient is
\* a double; when n / d lies halfway between two one-decimal numbers the
\* double lies just above or just below it, and halfUp tells which.
toFixed1(n, d, halfUp) ==
    LET q      == (10 * n) \div d
        r      == (10 * n) % d
        tenths == IF 2 * r > d \/ (2 * r = d /\ halfUp) THEN q + 1 ELSE q
    IN  toString(tenths \div 10) \o <<".">> \o toString(tenths % 10)

formatCompactNumber(n, halfUp) ==
    IF n >= Million THEN toFixed1(n, Million, halfUp) \o <<"M">>
    ELSE IF n >= Thousand THEN toFixed1(n, Thousand, halfUp) \o <<"K">>
    ELSE toString(n)

\* Token counts at the small end, around a thousand and around a million,
\* and some in between.
Numbers ==
    0..NumSpan
        \cup (Thousand - NumSpan)..(Thousand + NumSpan)
        \cup (Million - NumSpan)..(Million + NumSpan)
        \cup {12345, 150000, 1500000, 12345678}

CompactInit ==
    /\ num \in Numbers
    /\ formatted = NotFormatted
    /\ codeView = UnmountedCodeView
    /\ chatList = InitialChatList
    /\ modal = HiddenModal
    /\ message = NoMessage
    /\ extracted = NotExtracted
    /\ indicator = UnmountedIndicator
    /\ footer = UnmountedFooter
    /\ SearchIdle

CallFormatCompactNumber ==
    /\ formatted = NotFormatted
    /\ \E halfUp \in BOOLEAN : formatted' = formatCompactNumber(num, halfUp)
    /\ UNCHANGED <<num, codeView, chatList, modal>>
    /\ UNCHANGED <<message, extracted, indicator, footer>>
    /\ UNCHANGED <<messages, query, results, text, maxLength, out>>

CompactNext == CallFormatCompactNumber

CompactSpec == CompactInit /\ [][CompactNext]_vars

\* Reading a result back.
DigitValue(c) == CHOOSE d \in 0..9 : DigitChars[d + 1] = c
IsDigits(s) ==
    /\ Len(s) >= 1
    /\ \A i \in 1..Len(s) : \E d \in 0..9 : DigitChars[d + 1] = s[i]
    /\ Len(s) > 1 => s[1] # "0"

RECURSIVE NumberOf(_)
NumberOf(s) ==
    IF Len(s) = 1 THEN DigitValue(s[1])
    ELSE 10 * NumberOf(SubSeq(s, 1, Len(s) - 1)) + DigitValue(s[Len(s)])

\* s is digits, ".", one digit and the suffix.
IsOneDecimalWith(s, suffix) ==
    /\ Len(s) >= 4
    /\ s[Len(s)] = suffix
    /\ s[Len(s) - 2] = "."
    /\ IsDigits(<<s[Len(s) - 1]>>)
    /\ IsDigits(SubSeq(s, 1, Len(s) - 3))

\* The numeric part of such a string, in tenths.
TenthsOf(s) ==
    10 * NumberOf(SubSeq(s, 1, Len(s) - 3)) + DigitValue(s[Len(s) - 1])

\* C24: n < 1000 is shown as its decimal digits; 1000 <= n < 1,000,000 is
\* shown with the suffix K and a one-decimal numeric part of at least 1.0
\* and less than 1000; n >= 1,000,000 is shown with the suffix M and a
\* one-decimal numeric part of at least 1.0.
C24_CompactNumberRanges ==
    formatted # NotFormatted =>
        /\ num < Thousand =>
              IsDigits(formatted) /\ NumberOf(formatted) = num
        /\ (num >= Thousand /\ num < Million) =>
              /\ IsOneDecimalWith(formatted, "K")
              /\ TenthsOf(formatted) >= 10
              /\ TenthsOf(formatted) < 10 * Thousand
        /\ num >= Million =>
              /\ IsOneDecimalWith(formatted, "M")
              /\ TenthsOf(formatted) >= 10

(***************************************************************************)
(* The type label of a result in the list of the search modal (checked     *)
(* under Spec).                                                            *)
(***************************************************************************)
\* renderItem: messageType
messageType(m) ==
    IF m.kind = "user-text" THEN "You"
    ELSE IF m.kind = "agent-text" THEN "Agent"
    ELSE "Tool"

\* C25: a result is labelled "You" exactly when its message is a user-text
\* message, "Agent" exactly when it is an agent-text message, and "Tool"
\* only when it is a tool-call message.
C25_LabelMatchesKind ==
    \A j \in 1..Len(results) :
        LET m == results[j].message
        IN  /\ (messageType(m) = "You") = (m.kind = "user-text")
            /\ (messageType(m) = "Agent") = (m.kind = "agent-text")
            /\ messageType(m) = "Tool" => m.kind = "tool-call"

(***************************************************************************)
(* The search modal shown and hidden by its parent.  The effect on         *)
(* [visible] runs after the render is committed and before the next render *)
(* or event.                                                               *)
(***************************************************************************)
\* Faulty variant: the query is kept when the modal is hidden.
queryAfterEffect_Kept(visible, q) == q

\* The effect on [visible]: setQuery('') when the modal is not visible.
queryAfterEffect(visible, q) == IF visible THEN q ELSE <<>>

\* Keyboard.dismiss(); onMessagePress(messageId); onClose();
callbacksOfPress(messageId) ==
    <<[fn |-> "onMessagePress", arg |-> messageId],
      [fn |-> "onClose", arg |-> "none"]>>

PoolMessage(id) == CHOOSE m \in MessagePool : m.id = id

ModalMessageLists ==
    { <<>>,
      <<PoolMessage("u1")>>,
      <<PoolMessage("u1"), PoolMessage("t1"), PoolMessage("e1")>> }

ModalQueries == { <<>>, <<" ">>, <<"a">>, <<"b">> }

ModalInit ==
    /\ messages \in ModalMessageLists
    /\ query = <<>>
    /\ results = searchMessages(messages, <<>>)
    /\ text = <<>>
    /\ maxLength = DefaultMaxLength
    /\ out = NoSnippet
    /\ ComponentsIdle

ModalUnchanged ==
    /\ UNCHANGED <<messages, text, maxLength, out>>
    /\ UNCHANGED <<message, extracted, indicator, footer>>
    /\ UNCHANGED <<codeView, chatList, num, formatted>>

\* The parent renders the modal with visible true.
openModal ==
    /\ ~modal.visible
    /\ ~modal.effectPending
    /\ modal.openings < MaxPresses
    /\ modal' = [modal EXCEPT !.visible = TRUE,
                              !.effectPending = TRUE,
                              !.openings = @ + 1,
                              !.openedQuery = query,
                              !.openedResults = results]
    /\ UNCHANGED <<query, results>>
    /\ ModalUnchanged

\* The parent renders the modal with visible false (after onClose).
hideModal ==
    /\ modal.visible
    /\ ~modal.effectPending
    /\ modal' = [modal EXCEPT !.visible = FALSE, !.effectPending = TRUE]
    /\ UNCHANGED <<query, results>>
    /\ ModalUnchanged

\* The effect on [visible], and the render that follows setQuery('').
runModalEffect ==
    /\ modal.effectPending
    /\ modal' = [modal EXCEPT !.effectPending = FALSE]
    /\ query' = queryAfterEffect(modal.visible, query)
    /\ results' = searchMessages(messages, query')
    /\ ModalUnchanged

\* Typing into the input of the visible modal.
typeQuery(q) ==
    /\ modal.visible
    /\ ~modal.effectPending
    /\ setQuery(q)

\* The clear button of the visible modal.
pressClear ==
    /\ modal.visible
    /\ ~modal.effectPending
    /\ clearQuery

\* A press on the j-th result.
handleMessagePress(j) ==
    /\ modal.visible
    /\ ~modal.effectPending
    /\ j \in 1..Len(results)
    /\ modal' = [modal EXCEPT
                    !.pressedId = results[j].message.id,
                    !.calls = callbacksOfPress(results[j].message.id)]
    /\ UNCHANGED <<query, results>>
    /\ ModalUnchanged

ModalNext ==
    \/ openModal
    \/ hideModal
    \/ runModalEffect
    \/ \E q \in ModalQueries : typeQuery(q)
    \/ pressClear
    \/ \E j \in 1..MaxMessages + 1 : handleMessagePress(j)

ModalSpec == ModalInit /\ [][ModalNext]_vars

\* C23: once the modal has gone from visible to hidden the query is the
\* empty string, so every opening of the modal starts with an empty query
\* and an empty result list; selecting a result calls onMessagePress with
\* the message id of that result and then onClose, each once.
C23_OpensWithEmptyQuery ==
    /\ (~modal.visible /\ ~modal.effectPending) =>
           query = <<>> /\ results = <<>>
    /\ modal.openings > 0 =>
           modal.openedQuery = <<>> /\ modal.openedResults = <<>>
    /\ modal.calls # <<>> =>
           /\ Len(modal.calls) = 2
           /\ modal.calls[1] = [fn |-> "onMessagePress", arg |-> modal.pressedId]
           /\ modal.calls[2].fn = "onClose"
           /\ \E i \in 1..Len(messages) : messages[i].id = modal.pressedId

\* The modal was opened a second time after a result had been selected in
\* the first, and shows an empty query and no results.
W23_OpenedAgainAfterSelecting ==
    /\ modal.visible
    /\ ~modal.effectPending
    /\ modal.openings = 2
    /\ modal.calls # <<>>
    /\ modal.openedQuery = <<>>
    /\ query = <<>>
    /\ results = <<>>

====
